---- MODULE Spec2Model ----
(***************************************************************************)
(* Asynchronous job continuation protocol of replicate_image_ai:           *)
(* generate_image / generate_with_visual_context (dispatch), the bounded   *)
(* waiter WaitForCompletion, the pending-operation registry with its       *)
(* cleanup goroutine, and continue_operation.                              *)
(*                                                                         *)
(* Time is a clock in whole seconds that advances from one timer expiry    *)
(* to the next (tickers, sleeps, context deadlines, the cleanup ticker).   *)
(***************************************************************************)
EXTENDS Integers, Sequences, FiniteSets, TLC

VARIABLES
    now,         \* wall clock, seconds since the handler was constructed
    sweepNext,   \* next tick of the cleanupExpired ticker
    operations,  \* PendingOperationsManager.operations: prediction ID -> PendingOperation
    jobs,        \* the upstream provider's predictions: prediction ID -> status record
    tasks,       \* one record per caller task: the position of its tool call and its locals
    resp,        \* what the last finished tool call of each task returned
    lastEst,     \* per prediction ID, estimated_remaining of the last processing response (0: none yet)
    calls,       \* tool calls started so far
    faults,      \* faults of the environment so far
    files,       \* the files under the storage root: <<storage ID, "image" | "metadata">>
    config,      \* the environment of the process and the TimeoutConfig loaded from it
    mu           \* PendingOperationsManager.mu: the goroutine holding the write lock, and the readers

vars == <<now, sweepNext, operations, jobs, tasks, resp, lastEst, calls, faults, files,
          config, mu>>

----------------------------------------------------------------------------
(* Bounds of the model *)

MaxTime == 720        \* the clock stops here
MaxCalls == 3         \* tool calls per behaviour
MaxJobs == 1          \* predictions the upstream provider accepts per behaviour
MaxFaults == 1        \* faults of the environment per behaviour

Tasks == {"t1"}

----------------------------------------------------------------------------
(* Program constants *)

InitialWaitSeconds == 15      \* ctx15s / time.After in GenerateWithVisualContext
TickerSeconds == 2            \* ticker of WaitForCompletion
maxAttempts == 60             \* GenerateImage poll loop
pollInterval == 2             \* GenerateImage sleep between polls
DefaultWaitTime == 30         \* continue_operation: wait_time absent
MinWaitTime == 5
MaxWaitTime == 30
CleanupTickerSeconds == 60    \* cleanupExpired ticker
ExpirySeconds == 600          \* cleanupExpired: 10 * time.Minute
MinEstimate == 5
MaxEstimate == 60
DefaultTypical == 30
InitialEstimateGenerateImage == 30
InitialEstimateVisualContext == 45
StorageIDPrefixLen == 8       \* predictionID[:8]

GI == "generate_image"
VC == "generate_with_visual_context"
CO == "continue_operation"

Terminal == {"succeeded", "failed", "canceled"}
NonTerminal == {"starting", "processing"}

\* prediction IDs the upstream provider hands out, in order
PredictionID(n) == "pred-" \o ToString(n) \o "-xyz"
UpstreamIDs == {PredictionID(n) : n \in 1..MaxJobs}

\* prediction_id arguments a caller may pass that the provider never issued
UnknownIDs == {"", "abc", "invalid-id-12345"}
AllIDs == UpstreamIDs \cup UnknownIDs

\* wait_time arguments of continue_operation; NoWaitTime: the argument is absent
NoWaitTime == -1
\* a wait_time no int holds: a float64 of 2^63 or more, such as 1e19. The integers of
\* the model are narrower than Go's, so the value is named, not written out
TooLargeWaitTime == 1000000
WaitTimeArgs == {NoWaitTime, 1, 45, TooLargeWaitTime}

Min(a, b) == IF a < b THEN a ELSE b
Max(a, b) == IF a > b THEN a ELSE b

----------------------------------------------------------------------------
(* Records *)

\* the zero PendingOperation
NoOperation ==
    [PredictionID |-> "", StorageID |-> "", Operation |-> "", StartTime |-> 0, Model |-> ""]

\* what WaitForCompletion returned: status "" is a nil prediction; err "none" is a nil error;
\* timedOutText says whether err.Error() contains "timed out"
NoWaitResult == [status |-> "", err |-> "none", timedOutText |-> FALSE]

\* arguments of a generation tool: the prompt, the numbers of reference images and
\* tags (generate_with_visual_context), whether every tag is 3-15 alphanumeric
\* characters, and whether every reference image file exists
NoArgs == [prompt |-> "", images |-> 0, tags |-> 0, tagsOK |-> TRUE, filesExist |-> TRUE]

IdleTask ==
    [pc |-> "idle", tool |-> "", args |-> NoArgs, id |-> "", waitArg |-> NoWaitTime,
     storage |-> "", op |-> NoOperation, waitTime |-> 0, start |-> 0,
     tick |-> 0, deadline |-> 0, ctxDeadline |-> 0, i |-> 0, canceled |-> FALSE,
     wres |-> NoWaitResult, creates |-> 0, polls |-> 0]

\* kind: "completed" | "pending" | "failed" are tool responses; "error" is a Go error
\* returned with a nil response; "panic" is a run-time panic of the handler
NoResponse ==
    [kind |-> "none", tool |-> "", id |-> "", storage |-> "", est |-> 0, code |-> "",
     creates |-> 0, polls |-> 0]

NoJob == [status |-> "none", hasOutput |-> FALSE, errTimedOut |-> FALSE]

----------------------------------------------------------------------------
(* pkg/handler/pending.go *)

Add(ops, predictionID, op) ==
    [k \in (DOMAIN ops) \cup {predictionID} |-> IF k = predictionID THEN op ELSE ops[k]]

Exists(ops, predictionID) == predictionID \in DOMAIN ops

\* a Get that hands out the entry without its storage ID
GetDropsStorageID(ops, predictionID) ==
    IF predictionID \in DOMAIN ops THEN [ops[predictionID] EXCEPT !.StorageID = ""]
    ELSE NoOperation

\* a Get that hands out a copy of the entry with its clock restarted
GetRestartsClock(ops, predictionID) ==
    IF predictionID \in DOMAIN ops THEN [ops[predictionID] EXCEPT !.StartTime = now]
    ELSE NoOperation

Get(ops, predictionID) ==
    IF predictionID \in DOMAIN ops THEN ops[predictionID] ELSE NoOperation

\* a Remove that leaves the entry where it is
RemoveKeepsEntry(ops, predictionID) == ops

Remove(ops, predictionID) ==
    [k \in (DOMAIN ops) \ {predictionID} |-> ops[k]]

\* an expiry test that lets every entry live twice as long
ExpiredLate(op, t) == t - op.StartTime > 2 * ExpirySeconds

\* one pass of the cleanup loop, at time t
Expired(op, t) == t - op.StartTime > ExpirySeconds

\* a cleanup pass that empties the registry
CleanupPassRemovesAll(ops, t) == << >>

\* a cleanup pass that deletes nothing
CleanupPassKeepsAll(ops, t) == ops

CleanupPass(ops, t) ==
    [k \in {j \in DOMAIN ops : ~Expired(ops[j], t)} |-> ops[k]]

typicalTimes ==
    [generate_image |-> 30, generate_with_visual_context |-> 45, edit_image |-> 35,
     remove_background |-> 20, upscale_image |-> 25, enhance_face |-> 20,
     restore_photo |-> 30]

\* an estimate without the clamp to [MinEstimate, MaxEstimate]
EstimateUnclamped(operation, elapsed) ==
    (IF operation \in DOMAIN typicalTimes THEN typicalTimes[operation] ELSE DefaultTypical)
    - elapsed

EstimateRemainingTime(operation, elapsed) ==
    LET typical == IF operation \in DOMAIN typicalTimes
                   THEN typicalTimes[operation] ELSE DefaultTypical
        remaining == typical - elapsed
        atLeast == IF remaining < MinEstimate THEN MinEstimate ELSE remaining
    IN  IF atLeast > MaxEstimate THEN MaxEstimate ELSE atLeast

----------------------------------------------------------------------------
(* pkg/responses/responses.go *)

\* estimated_remaining is put in the response only when it is > 0
BuildProcessingResponse(operation, predictionID, storageID, estimatedRemaining) ==
    [kind |-> "pending", tool |-> operation, id |-> predictionID, storage |-> storageID,
     est |-> IF estimatedRemaining > 0 THEN estimatedRemaining ELSE 0, code |-> "",
     creates |-> 0, polls |-> 0]

BuildSuccessResponse(operation, storageID, predictionID) ==
    [kind |-> "completed", tool |-> operation, id |-> predictionID, storage |-> storageID,
     est |-> 0, code |-> "", creates |-> 0, polls |-> 0]

BuildErrorResponse(operation, code, predictionID) ==
    [kind |-> "failed", tool |-> operation, id |-> predictionID, storage |-> "",
     est |-> 0, code |-> code, creates |-> 0, polls |-> 0]

\* return nil, fmt.Errorf(...): no response value
GoError(operation, code, predictionID) ==
    [kind |-> "error", tool |-> operation, id |-> predictionID, storage |-> "",
     est |-> 0, code |-> code, creates |-> 0, polls |-> 0]

Panic(operation, predictionID) ==
    [kind |-> "panic", tool |-> operation, id |-> predictionID, storage |-> "",
     est |-> 0, code |-> "slice bounds out of range", creates |-> 0, polls |-> 0]

----------------------------------------------------------------------------
(* The upstream provider, pkg/client/replicate.go *)

\* faults of the environment (a request that fails in transport, a file that cannot
\* be written, a caller that cancels) happen at most MaxFaults times in a behaviour;
\* a choice over MayFail is empty when no fault is left
MayFail == IF faults < MaxFaults THEN {TRUE} ELSE {}

\* the results (ok or not) an operation of the environment that may fail can have
Outcomes == IF faults < MaxFaults THEN BOOLEAN ELSE {TRUE}

\* SaveImage is only reached with an output URL
SaveOutcomes(hasOutput) == IF hasOutput THEN Outcomes ELSE {TRUE}

\* SaveMetadata is only reached after SaveImage has written the image
MetadataOutcomes(reached) == IF reached THEN Outcomes ELSE {TRUE}

\* the files after SaveImage has written the image of storageID and SaveMetadata has
\* written metadata.yaml (metaOK) or has failed
Saved(fs, storageID, metaOK) ==
    fs \cup {<<storageID, "image">>}
       \cup (IF metaOK THEN {<<storageID, "metadata">>} ELSE {})

\* the provider issues its prediction IDs in order; DOMAIN jobs are those it will issue
NextJob == Cardinality({h \in DOMAIN jobs : jobs[h].status # "none"}) + 1

\* the outcomes GetPrediction(ctx, predictionID) can have in state js of the provider:
\* a request on a finished context fails; an ID the provider does not know is an API error;
\* otherwise the current status, or a transport error
GetPrediction(js, ctxDone, predictionID) ==
    IF ctxDone
    THEN {[err |-> TRUE, status |-> "", fault |-> FALSE]}
    ELSE IF predictionID \notin DOMAIN js \/ js[predictionID].status = "none"
    THEN {[err |-> TRUE, status |-> "", fault |-> FALSE]}
    ELSE {[err |-> FALSE, status |-> js[predictionID].status, fault |-> FALSE]}
         \cup {[err |-> TRUE, status |-> "", fault |-> TRUE] : b \in MayFail}

\* the caller's context reaches the client calls of generate_image and, through
\* context.WithTimeout(ctx, ...), those of continue_operation; generate_with_visual_context
\* waits under a context made from context.Background()
CallerCanceled(tk) == tk.canceled /\ tk.tool # VC

\* ctx.Done() of the context the task's client calls run under
CtxDone(tk) == CallerCanceled(tk) \/ (tk.ctxDeadline > 0 /\ now >= tk.ctxDeadline)

\* ctx.Err(): cancellation is only modelled while the deadline has not passed
CtxErr(tk) ==
    IF CallerCanceled(tk) THEN "ctx_canceled"
    ELSE IF tk.ctxDeadline > 0 /\ now >= tk.ctxDeadline THEN "ctx_deadline"
    ELSE "none"

\* a poll that takes every status for one to keep polling on
PollIgnoresStatus(js, predictionID, r) ==
    IF r.err THEN [status |-> "", err |-> "transport", timedOutText |-> FALSE]
    ELSE NoWaitResult

\* a poll that ends the wait for a succeeded prediction only
PollWaitsForSuccess(js, predictionID, r) ==
    IF r.err THEN [status |-> "", err |-> "transport", timedOutText |-> FALSE]
    ELSE IF r.status = "succeeded"
    THEN [status |-> "succeeded", err |-> "none", timedOutText |-> FALSE]
    ELSE NoWaitResult

\* a poll that takes a failed GetPrediction for a reason to poll again
PollRetriesOnError(js, predictionID, r) ==
    IF r.err THEN NoWaitResult
    ELSE IF r.status = "succeeded"
    THEN [status |-> "succeeded", err |-> "none", timedOutText |-> FALSE]
    ELSE IF r.status = "failed"
    THEN [status |-> "failed", err |-> "failed", timedOutText |-> js[predictionID].errTimedOut]
    ELSE IF r.status = "canceled"
    THEN [status |-> "canceled", err |-> "canceled", timedOutText |-> FALSE]
    ELSE NoWaitResult

\* what one poll of WaitForCompletion's ticker branch makes of a GetPrediction outcome r:
\* a wait result, or NoWaitResult to keep polling
PollOutcome(js, predictionID, r) ==
    IF r.err THEN [status |-> "", err |-> "transport", timedOutText |-> FALSE]
    ELSE IF r.status = "succeeded"
    THEN [status |-> "succeeded", err |-> "none", timedOutText |-> FALSE]
    ELSE IF r.status = "failed"
    THEN [status |-> "failed", err |-> "failed", timedOutText |-> js[predictionID].errTimedOut]
    ELSE IF r.status = "canceled"
    THEN [status |-> "canceled", err |-> "canceled", timedOutText |-> FALSE]
    ELSE NoWaitResult

\* the ticker branch taken after the deadline: the last known status and a timeout error
TimeoutOutcome(r) ==
    [status |-> IF r.err THEN "" ELSE r.status, err |-> "timeout", timedOutText |-> TRUE]

WaiterRunning(tk) == tk.pc \in {"vc_wait", "co_wait"} /\ tk.wres = NoWaitResult

----------------------------------------------------------------------------
(* pkg/config/timeouts.go *)

EnvNames == {"REPLICATE_INITIAL_WAIT", "REPLICATE_CONTINUE_WAIT",
             "REPLICATE_MAX_OPERATION_TIME", "REPLICATE_POLL_INTERVAL"}

\* a TimeoutConfig, in seconds
DefaultTimeouts ==
    [InitialWait |-> 15, ContinueWait |-> 30, MaxOperationTime |-> 10 * 60,
     PollInterval |-> 2]

Digits == <<"0", "1", "2", "3", "4", "5", "6", "7", "8", "9">>
IsDigit(c) == \E d \in 1..10 : Digits[d] = c
DigitValue(c) == (CHOOSE d \in 1..10 : Digits[d] = c) - 1

\* the value of the decimal digits of s after acc; -1 when a character is no digit
RECURSIVE ParseDigits(_, _)
ParseDigits(s, acc) ==
    IF Len(s) = 0 THEN acc
    ELSE IF ~IsDigit(SubSeq(s, 1, 1)) THEN -1
    ELSE ParseDigits(SubSeq(s, 2, Len(s)), 10 * acc + DigitValue(SubSeq(s, 1, 1)))

\* strconv.Atoi: an optional sign and one or more decimal digits
Atoi(s) ==
    LET signed == Len(s) > 0 /\ SubSeq(s, 1, 1) \in {"+", "-"}
        digits == IF signed THEN SubSeq(s, 2, Len(s)) ELSE s
        n == ParseDigits(digits, 0)
    IN  IF Len(digits) = 0 \/ n < 0 THEN [err |-> TRUE, n |-> 0]
        ELSE [err |-> FALSE, n |-> IF signed /\ SubSeq(s, 1, 1) = "-" THEN -n ELSE n]

\* one override of LoadTimeouts: the default stays unless the variable is set and is
\* a positive integer, which is taken in units of unit seconds
Override(val, default, unit) ==
    IF val # "" /\ ~Atoi(val).err /\ Atoi(val).n > 0 THEN Atoi(val).n * unit ELSE default

LoadTimeouts(env) ==
    [InitialWait |-> Override(env["REPLICATE_INITIAL_WAIT"], DefaultTimeouts.InitialWait, 1),
     ContinueWait |-> Override(env["REPLICATE_CONTINUE_WAIT"], DefaultTimeouts.ContinueWait, 1),
     MaxOperationTime |-> Override(env["REPLICATE_MAX_OPERATION_TIME"],
                                   DefaultTimeouts.MaxOperationTime, 60),
     PollInterval |-> Override(env["REPLICATE_POLL_INTERVAL"], DefaultTimeouts.PollInterval, 1)]

\* the process with no timeout variable set, after its start
DefaultConfig ==
    [env |-> [n \in EnvNames |-> ""], loaded |-> TRUE, timeouts |-> DefaultTimeouts]

----------------------------------------------------------------------------
\* sync.RWMutex, zero value: nobody holds it
Unlocked == [writer |-> "", readers |-> {}]

Init ==
    /\ now = 0
    /\ sweepNext = CleanupTickerSeconds
    /\ operations = << >>
    /\ jobs = [h \in UpstreamIDs |-> NoJob]
    /\ tasks = [t \in Tasks |-> IdleTask]
    /\ resp = [t \in Tasks |-> NoResponse]
    /\ lastEst = [h \in AllIDs |-> 0]
    /\ calls = 0
    /\ faults = 0
    /\ files = {}
    /\ config = DefaultConfig
    /\ mu = Unlocked

----------------------------------------------------------------------------
(* Tool calls: pkg/handler/handler.go CallTool *)

GoodArgs == [prompt |-> "test image", images |-> 1, tags |-> 1, tagsOK |-> TRUE,
             filesExist |-> TRUE]
GenerateImageArgs == {GoodArgs, [GoodArgs EXCEPT !.prompt = ""]}
VisualContextArgs ==
    {GoodArgs, [GoodArgs EXCEPT !.prompt = ""], [GoodArgs EXCEPT !.images = 0, !.tags = 0],
     [GoodArgs EXCEPT !.tags = 0], [GoodArgs EXCEPT !.images = 4, !.tags = 4],
     [GoodArgs EXCEPT !.tagsOK = FALSE], [GoodArgs EXCEPT !.filesExist = FALSE]}
MaxReferenceImages == 3

\* the times, in seconds after the server started, at which clients make their calls:
\* at the start, right after the initial wait, after a first continuation, and around
\* the cleanup pass that finds the first registration expired
CallTimes == {0, 15, 45, 658, 663}

\* the call of task t returns r, having made the given numbers of upstream requests
Finish(t, r, creates, polls) ==
    /\ tasks' = [tasks EXCEPT ![t] = IdleTask]
    /\ resp' = [resp EXCEPT ![t] = [r EXCEPT !.creates = creates, !.polls = polls]]
    /\ lastEst' = IF r.kind = "pending" /\ r.id \in DOMAIN lastEst
                  THEN [lastEst EXCEPT ![r.id] = r.est] ELSE lastEst

CallGenerate(t) ==
    /\ tasks[t].pc = "idle"
    /\ calls < MaxCalls
    /\ now \in CallTimes
    /\ \E tool \in {GI, VC} :
       \E args \in IF tool = GI THEN GenerateImageArgs ELSE VisualContextArgs :
          /\ tasks' = [tasks EXCEPT ![t] =
                          [IdleTask EXCEPT !.pc = "called", !.tool = tool, !.args = args,
                                           !.start = now]]
          /\ calls' = calls + 1
    /\ resp' = [resp EXCEPT ![t] = NoResponse]
    /\ UNCHANGED <<mu, config, files, now, sweepNext, operations, jobs, lastEst, faults>>

\* the deadlines, in seconds from the call, the caller's context may carry; 0: none.
\* A deadline of the caller is a fault of the environment like a cancellation
CallerTimeouts == IF faults < MaxFaults THEN {0, 3} ELSE {0}

CallContinue(t) ==
    /\ tasks[t].pc = "idle"
    /\ calls < MaxCalls
    /\ now \in CallTimes
    /\ \E id \in AllIDs, wt \in WaitTimeArgs, d \in CallerTimeouts :
          /\ tasks' = [tasks EXCEPT ![t] =
                          [IdleTask EXCEPT !.pc = "called", !.tool = CO, !.id = id,
                                           !.waitArg = wt, !.start = now,
                                           !.ctxDeadline = IF d > 0 THEN now + d ELSE 0]]
          /\ faults' = IF d > 0 THEN faults + 1 ELSE faults
    /\ resp' = [resp EXCEPT ![t] = NoResponse]
    /\ calls' = calls + 1
    /\ UNCHANGED <<mu, config, files, now, sweepNext, operations, jobs, lastEst>>

\* the caller cancels the context of its running call
CallerCancel(t) ==
    /\ \/ tasks[t].pc \in {"gi_loop", "co_wait"}
       \/ tasks[t].pc = "vc_wait" /\ tasks[t].wres = NoWaitResult
    /\ ~tasks[t].canceled
    /\ ~CtxDone(tasks[t])
    /\ faults < MaxFaults
    /\ tasks' = [tasks EXCEPT ![t].canceled = TRUE]
    /\ faults' = faults + 1
    /\ UNCHANGED <<mu, config, files, now, sweepNext, operations, jobs, resp, lastEst, calls>>

----------------------------------------------------------------------------
(* Dispatch: handleGenerateImage / handleGenerateWithVisualContext *)

GenerateID(n) == "img-" \o ToString(n)

InitialEstimate(tool) ==
    IF tool = GI THEN InitialEstimateGenerateImage ELSE InitialEstimateVisualContext

\* the (*ImageResult, error) a generator returns: err is the error code ("" for nil)
GenResult(err, status, predictionID, storageID) ==
    [err |-> err, Status |-> status, PredictionID |-> predictionID, StorageID |-> storageID]

\* a handler that registers the operation before it looks at the generator's error
HandlerRegistersFirst(t, tool, result, creates, polls) ==
    /\ operations' = Add(operations, result.PredictionID,
                         [PredictionID |-> result.PredictionID,
                          StorageID |-> result.StorageID, Operation |-> tool,
                          StartTime |-> now, Model |-> tool])
    /\ IF result.err # ""
       THEN Finish(t, BuildErrorResponse(tool, result.err, result.PredictionID), creates, polls)
       ELSE IF result.Status = "processing"
       THEN Finish(t, BuildProcessingResponse(tool, result.PredictionID, result.StorageID,
                                               InitialEstimate(tool)), creates, polls)
       ELSE Finish(t, BuildSuccessResponse(tool, result.StorageID, result.PredictionID),
                   creates, polls)

\* the handler after the generator returned: error response, or registration and a
\* processing response, or the success response
HandlerReturn(t, tool, result, creates, polls) ==
    IF result.err # ""
    THEN /\ Finish(t, BuildErrorResponse(tool, result.err, result.PredictionID), creates, polls)
         /\ UNCHANGED operations
    ELSE IF result.Status = "processing"
    THEN /\ operations' = Add(operations, result.PredictionID,
                              [PredictionID |-> result.PredictionID,
                               StorageID |-> result.StorageID, Operation |-> tool,
                               StartTime |-> now, Model |-> tool])
         /\ Finish(t, BuildProcessingResponse(tool, result.PredictionID, result.StorageID,
                                              InitialEstimate(tool)), creates, polls)
    ELSE /\ Finish(t, BuildSuccessResponse(tool, result.StorageID, result.PredictionID),
                   creates, polls)
         /\ UNCHANGED operations

\* output URL extraction and SaveImage after a succeeded prediction
Materialize(hasOutput, saveOK, status, predictionID, storageID) ==
    IF ~hasOutput THEN GenResult("no_output", "", predictionID, storageID)
    ELSE IF ~saveOK THEN GenResult("generation_error", "", predictionID, storageID)
    ELSE GenResult("", status, predictionID, storageID)

\* a parameter check that looks at the prompt only
ValidatesPromptOnly(tool, args) == IF args.prompt = "" THEN "invalid_parameters" ELSE ""

\* the handler's and the generator's parameter checks: "" when the parameters pass
ValidateParams(tool, args) ==
    IF args.prompt = "" THEN "invalid_parameters"
    ELSE IF tool = GI THEN ""
    ELSE IF args.images = 0 THEN "invalid_parameters"
    ELSE IF args.tags # args.images THEN "invalid_parameters"
    ELSE IF args.images > MaxReferenceImages THEN "invalid_parameters"
    ELSE IF ~args.tagsOK THEN "invalid_parameters"
    ELSE ""

\* validation, GenerateID, convertImagesToDataURLs and CreatePrediction of both generators
GenerateBegin(t) ==
    /\ tasks[t].pc = "called"
    /\ tasks[t].tool \in {GI, VC}
    /\ LET tk == tasks[t] IN
       IF ValidateParams(tk.tool, tk.args) # ""
       THEN /\ HandlerReturn(t, tk.tool,
                             GenResult(ValidateParams(tk.tool, tk.args), "", "", ""), 0, 0)
            /\ UNCHANGED <<jobs, faults>>
       ELSE \E idOK \in Outcomes, submitOK \in Outcomes :
              IF ~idOK
              THEN /\ HandlerReturn(t, tk.tool, GenResult("generation_error", "", "", ""), 0, 0)
                   /\ faults' = faults + 1
                   /\ UNCHANGED jobs
              ELSE IF tk.tool = VC /\ ~tk.args.filesExist
              THEN /\ HandlerReturn(t, tk.tool, GenResult("file_not_found", "", "", ""), 0, 0)
                   /\ UNCHANGED <<jobs, faults>>
              ELSE IF ~submitOK
              THEN /\ HandlerReturn(t, tk.tool, GenResult("generation_error", "", "", ""), 1, 0)
                   /\ faults' = faults + 1
                   /\ UNCHANGED jobs
              ELSE /\ PredictionID(NextJob) \in DOMAIN jobs
                   /\ UNCHANGED faults
                   /\ jobs' = [jobs EXCEPT ![PredictionID(NextJob)] =
                                  [status |-> "starting", hasOutput |-> FALSE,
                                   errTimedOut |-> FALSE]]
                   /\ tasks' = [tasks EXCEPT ![t] =
                         [tk EXCEPT !.id = PredictionID(NextJob),
                                    !.storage = GenerateID(calls),
                                    !.creates = 1,
                                    !.pc = IF tk.tool = GI THEN "gi_loop" ELSE "vc_wait",
                                    !.tick = IF tk.tool = GI THEN now ELSE now + TickerSeconds,
                                    !.deadline = IF tk.tool = GI THEN 0
                                                 ELSE now + InitialWaitSeconds,
                                    !.ctxDeadline = IF tk.tool = GI THEN 0
                                                    ELSE now + InitialWaitSeconds]]
                   /\ UNCHANGED <<operations, resp, lastEst>>
    /\ UNCHANGED <<mu, config, files, now, sweepNext, calls>>

\* GenerateImage: one iteration of the poll loop
GenerateImagePoll(t) ==
    /\ tasks[t].pc = "gi_loop"
    /\ tasks[t].i < maxAttempts
    /\ now >= tasks[t].tick
    /\ LET tk == tasks[t] IN
       \E r \in GetPrediction(jobs, CtxDone(tk), tk.id) :
          IF r.err
          THEN /\ HandlerReturn(t, GI, GenResult("generation_error", "", tk.id, tk.storage),
                                tk.creates, tk.polls + 1)
               /\ faults' = IF r.fault THEN faults + 1 ELSE faults
               /\ UNCHANGED files
          ELSE IF r.status = "succeeded"
          THEN \E saveOK \in SaveOutcomes(jobs[tk.id].hasOutput) :
               \E metaOK \in MetadataOutcomes(jobs[tk.id].hasOutput /\ saveOK) :
                  /\ HandlerReturn(t, GI,
                                   Materialize(jobs[tk.id].hasOutput, saveOK, "", tk.id,
                                               tk.storage),
                                   tk.creates, tk.polls + 1)
                  /\ faults' = IF saveOK /\ metaOK THEN faults ELSE faults + 1
                  /\ files' = IF jobs[tk.id].hasOutput /\ saveOK
                              THEN Saved(files, tk.storage, metaOK) ELSE files
          ELSE IF r.status \in {"failed", "canceled"}
          THEN /\ HandlerReturn(t, GI, GenResult("generation_failed", "", tk.id, tk.storage),
                                tk.creates, tk.polls + 1)
               /\ UNCHANGED <<faults, files>>
          ELSE /\ tasks' = [tasks EXCEPT ![t] =
                               [tk EXCEPT !.i = tk.i + 1, !.polls = tk.polls + 1,
                                          !.tick = now + pollInterval]]
               /\ UNCHANGED <<operations, resp, lastEst, faults, files>>
    /\ UNCHANGED <<mu, config, now, sweepNext, jobs, calls>>

\* GenerateImage: the loop ran out of attempts
GenerateImageTimeout(t) ==
    /\ tasks[t].pc = "gi_loop"
    /\ tasks[t].i = maxAttempts
    /\ now >= tasks[t].tick
    /\ HandlerReturn(t, GI, GenResult("timeout", "", tasks[t].id, tasks[t].storage),
                     tasks[t].creates, tasks[t].polls)
    /\ UNCHANGED <<mu, config, files, now, sweepNext, jobs, calls, faults>>

----------------------------------------------------------------------------
(* The bounded waiter: ReplicateClient.WaitForCompletion *)

\* select case <-ctx.Done()
WaitCtxDone(t) ==
    /\ WaiterRunning(tasks[t])
    /\ CtxDone(tasks[t])
    /\ tasks' = [tasks EXCEPT ![t] =
                    [tasks[t] EXCEPT
                        !.wres = [status |-> "", err |-> CtxErr(tasks[t]),
                                  timedOutText |-> FALSE],
                        !.pc = IF tasks[t].pc = "co_wait" THEN "co_check" ELSE "vc_wait"]]
    /\ UNCHANGED <<mu, config, files, now, sweepNext, operations, jobs, resp, lastEst, calls, faults>>

\* select case <-ticker.C. The ticker is made after the deadline is computed, so the
\* tick at start + 2k is after the deadline start + timeout when 2k >= timeout.
WaitTick(t) ==
    /\ WaiterRunning(tasks[t])
    /\ now >= tasks[t].tick
    /\ LET tk == tasks[t] IN
       \E r \in GetPrediction(jobs, CtxDone(tk), tk.id) :
          LET out == IF now >= tk.deadline THEN TimeoutOutcome(r)
                     ELSE PollOutcome(jobs, tk.id, r)
          IN  /\ tasks' = [tasks EXCEPT ![t] =
                 IF out = NoWaitResult
                 THEN [tk EXCEPT !.polls = tk.polls + 1, !.tick = tk.tick + TickerSeconds]
                 ELSE [tk EXCEPT !.polls = tk.polls + 1, !.wres = out,
                                 !.pc = IF tk.pc = "co_wait" THEN "co_check" ELSE "vc_wait"]]
              /\ faults' = IF r.fault THEN faults + 1 ELSE faults
    /\ UNCHANGED <<mu, config, files, now, sweepNext, operations, jobs, resp, lastEst, calls>>

----------------------------------------------------------------------------
(* GenerateWithVisualContext after CreatePrediction *)

\* lines 91-195: what the generator returns for the (prediction, err) its select produced
VisualContextResult(wres, hasOutput, saveOK, predictionID, storageID) ==
    IF wres.err # "none" /\ wres.timedOutText
    THEN GenResult("", "processing", predictionID, storageID)
    ELSE IF wres.err # "none"
    THEN GenResult("generation_failed", "", predictionID, storageID)
    ELSE Materialize(hasOutput, saveOK, "completed", predictionID, storageID)

\* select case res := <-resultChan
VcSelectResult(t) ==
    /\ tasks[t].pc = "vc_wait"
    /\ tasks[t].wres # NoWaitResult
    /\ LET tk == tasks[t] IN
       \E saveOK \in SaveOutcomes(tk.wres.err = "none" /\ jobs[tk.id].hasOutput) :
       \E metaOK \in MetadataOutcomes(tk.wres.err = "none" /\ jobs[tk.id].hasOutput
                                          /\ saveOK) :
          /\ HandlerReturn(t, VC,
                           VisualContextResult(tk.wres, jobs[tk.id].hasOutput, saveOK,
                                               tk.id, tk.storage),
                           tk.creates, tk.polls)
          /\ faults' = IF saveOK /\ metaOK THEN faults ELSE faults + 1
          /\ files' = IF tk.wres.err = "none" /\ jobs[tk.id].hasOutput /\ saveOK
                      THEN Saved(files, tk.storage, metaOK) ELSE files
    /\ UNCHANGED <<mu, config, now, sweepNext, jobs, calls>>

\* select case <-time.After(15 * time.Second)
VcSelectTimeout(t) ==
    /\ tasks[t].pc = "vc_wait"
    /\ now >= tasks[t].start + InitialWaitSeconds
    /\ LET tk == tasks[t] IN
       HandlerReturn(t, VC,
                     VisualContextResult([status |-> "", err |-> "timeout",
                                          timedOutText |-> TRUE],
                                         FALSE, FALSE, tk.id, tk.storage),
                     tk.creates, tk.polls)
    /\ UNCHANGED <<mu, config, files, now, sweepNext, jobs, calls, faults>>

----------------------------------------------------------------------------
(* Continuation: handleContinueOperation *)

ClampWaitTime(arg) ==
    IF arg = NoWaitTime THEN DefaultWaitTime
    ELSE IF arg < MinWaitTime THEN MinWaitTime
    ELSE IF arg > MaxWaitTime THEN MaxWaitTime
    ELSE arg

\* line 470, int(wt): exact for a value an int holds. For a value no int holds the
\* conversion succeeds with an implementation-dependent result: the lowest int on
\* amd64, the highest on arm64 (named here by -TooLargeWaitTime and TooLargeWaitTime)
IntOfFloat64(wt) ==
    IF wt >= TooLargeWaitTime THEN {-TooLargeWaitTime, TooLargeWaitTime} ELSE {wt}

\* lines 468-477: the values waitTime may have after the arguments are read
WaitTimes(arg) ==
    IF arg = NoWaitTime THEN {DefaultWaitTime}
    ELSE {ClampWaitTime(i) : i \in IntOfFloat64(arg)}

\* the best-effort PendingOperation made up for an ID that is not registered
SynthesizedOperation(predictionID, t0) ==
    [PredictionID |-> predictionID,
     StorageID |-> "cont_" \o SubSeq(predictionID, 1, StorageIDPrefixLen),
     Operation |-> VC, StartTime |-> t0, Model |-> ""]

\* predictionID[:8] panics on a shorter string
SlicePanics(predictionID) == Len(predictionID) < StorageIDPrefixLen

\* a continuation that puts the PendingOperation it made up into the registry
ContinueBeginRegisters(t) ==
    /\ tasks[t].pc = "called"
    /\ tasks[t].tool = CO
    /\ LET tk == tasks[t]
       IN  IF tk.id = ""
           THEN /\ Finish(t, GoError(CO, "prediction_id is required", ""), 0, 0)
                /\ UNCHANGED operations
           ELSE IF ~Exists(operations, tk.id) /\ SlicePanics(tk.id)
           THEN /\ Finish(t, Panic(CO, tk.id), 0, 0)
                /\ UNCHANGED operations
           ELSE \E w \in WaitTimes(tk.waitArg) :
                /\ operations' = IF Exists(operations, tk.id) THEN operations
                                 ELSE Add(operations, tk.id, SynthesizedOperation(tk.id, now))
                /\ tasks' = [tasks EXCEPT ![t] =
                       [tk EXCEPT !.pc = "co_wait",
                                  !.waitArg = NoWaitTime,
                                  !.op = IF Exists(operations, tk.id)
                                         THEN Get(operations, tk.id)
                                         ELSE SynthesizedOperation(tk.id, now),
                                  !.waitTime = w,
                                  !.tick = now + TickerSeconds,
                                  !.deadline = now + w,
                                  !.ctxDeadline = IF tk.ctxDeadline > 0
                                                  THEN Min(tk.ctxDeadline, now + w)
                                                  ELSE now + w]]
                /\ UNCHANGED <<resp, lastEst>>
    /\ UNCHANGED <<mu, config, files, now, sweepNext, jobs, calls, faults>>

\* lines 461-507: arguments, Get, the context
ContinueBegin(t) ==
    /\ tasks[t].pc = "called"
    /\ tasks[t].tool = CO
    /\ LET tk == tasks[t]
       IN  IF tk.id = ""
           THEN Finish(t, GoError(CO, "prediction_id is required", ""), 0, 0)
           ELSE IF ~Exists(operations, tk.id) /\ SlicePanics(tk.id)
           THEN Finish(t, Panic(CO, tk.id), 0, 0)
           ELSE \E w \in WaitTimes(tk.waitArg) :
                /\ tasks' = [tasks EXCEPT ![t] =
                       [tk EXCEPT !.pc = "co_wait",
                                  !.waitArg = NoWaitTime,
                                  !.op = IF Exists(operations, tk.id)
                                         THEN Get(operations, tk.id)
                                         ELSE SynthesizedOperation(tk.id, now),
                                  !.waitTime = w,
                                  !.tick = now + TickerSeconds,
                                  !.deadline = now + w,
                                  !.ctxDeadline = IF tk.ctxDeadline > 0
                                                  THEN Min(tk.ctxDeadline, now + w)
                                                  ELSE now + w]]
                /\ UNCHANGED <<resp, lastEst>>
    /\ UNCHANGED <<mu, config, files, now, sweepNext, operations, jobs, calls, faults>>

\* lines 509-536: what the handler does with the (result, err) of the wait
ContinueCheck(t) ==
    /\ tasks[t].pc = "co_check"
    /\ LET tk == tasks[t] IN
       IF tk.wres.err # "none" /\ CtxErr(tk) = "ctx_deadline"
       THEN /\ Finish(t, BuildProcessingResponse(tk.op.Operation, tk.id, tk.op.StorageID,
                            EstimateRemainingTime(tk.op.Operation, now - tk.op.StartTime)),
                      0, tk.polls)
            /\ UNCHANGED operations
       ELSE IF tk.wres.err # "none"
       THEN /\ operations' = Remove(operations, tk.id)
            /\ Finish(t, GoError(CO, "operation failed", tk.id), 0, tk.polls)
       ELSE /\ operations' = Remove(operations, tk.id)
            /\ tasks' = [tasks EXCEPT ![t].pc = "co_save"]
            /\ UNCHANGED <<resp, lastEst>>
    /\ UNCHANGED <<mu, config, files, now, sweepNext, jobs, calls, faults>>

\* GenerateID makes the directory of every storage ID it returns; nothing makes a
\* directory for the storage ID of a synthesized PendingOperation
DirectoryExists(storageID) == storageID \in {GenerateID(n) : n \in 0..MaxCalls}

\* SaveImage(storageID, ...) writes into the directory of storageID: os.WriteFile
\* fails when the directory does not exist
SaveImageOutcomes(reached, storageID) ==
    IF ~reached THEN {TRUE}
    ELSE IF ~DirectoryExists(storageID) THEN {FALSE}
    ELSE Outcomes

\* a continuation that gives up when the metadata cannot be written
ContinueResultNeedsMetadata(op, predictionID, hasOutput, saveOK, metaOK) ==
    IF ~hasOutput THEN GoError(CO, "no output URL in completed prediction", predictionID)
    ELSE IF op.StorageID # "" /\ ~saveOK
    THEN GoError(CO, "failed to save image", predictionID)
    ELSE IF op.StorageID # "" /\ ~metaOK
    THEN GoError(CO, "failed to save metadata", predictionID)
    ELSE IF op.StorageID # ""
    THEN BuildSuccessResponse(op.Operation, op.StorageID, predictionID)
    ELSE BuildSuccessResponse(CO, "", predictionID)

\* lines 538-625: what the handler returns after Remove; a failure of SaveMetadata
\* (metaOK = FALSE) is logged and changes nothing
ContinueResult(op, predictionID, hasOutput, saveOK, metaOK) ==
    IF ~hasOutput THEN GoError(CO, "no output URL in completed prediction", predictionID)
    ELSE IF op.StorageID # "" /\ ~saveOK
    THEN GoError(CO, "failed to save image", predictionID)
    ELSE IF op.StorageID # ""
    THEN BuildSuccessResponse(op.Operation, op.StorageID, predictionID)
    ELSE BuildSuccessResponse(CO, "", predictionID)

\* lines 538-625: output URL, SaveImage, SaveMetadata, the success response
ContinueSave(t) ==
    /\ tasks[t].pc = "co_save"
    /\ LET tk == tasks[t]
           reached == jobs[tk.id].hasOutput /\ tk.op.StorageID # ""
       IN
       \E saveOK \in SaveImageOutcomes(reached, tk.op.StorageID) :
       \E metaOK \in MetadataOutcomes(reached /\ saveOK) :
          /\ faults' = IF (reached /\ DirectoryExists(tk.op.StorageID) /\ ~saveOK) \/ ~metaOK
                       THEN faults + 1 ELSE faults
          /\ files' = IF reached /\ saveOK THEN Saved(files, tk.op.StorageID, metaOK)
                      ELSE files
          /\ Finish(t, ContinueResult(tk.op, tk.id, jobs[tk.id].hasOutput, saveOK, metaOK),
                    0, tk.polls)
    /\ UNCHANGED <<mu, config, now, sweepNext, operations, jobs, calls>>

----------------------------------------------------------------------------
(* The cleanup goroutine, the upstream jobs and the clock *)

cleanupExpired ==
    /\ now >= sweepNext
    /\ operations' = CleanupPass(operations, now)
    /\ sweepNext' = sweepNext + CleanupTickerSeconds
    /\ UNCHANGED <<mu, config, files, now, jobs, tasks, resp, lastEst, calls, faults>>

\* the provider moves a prediction on: starting -> processing -> succeeded | failed | canceled
JobProgress(h) ==
    /\ jobs[h].status \in NonTerminal
    /\ \/ /\ jobs[h].status = "starting"
          /\ jobs' = [jobs EXCEPT ![h].status = "processing"]
       \/ /\ jobs[h].status = "processing"
          /\ \E hasOutput \in BOOLEAN :
                jobs' = [jobs EXCEPT ![h] = [status |-> "succeeded", hasOutput |-> hasOutput,
                                             errTimedOut |-> FALSE]]
       \/ /\ jobs[h].status = "processing"
          /\ \E errTimedOut \in BOOLEAN :
                jobs' = [jobs EXCEPT ![h] = [status |-> "failed", hasOutput |-> FALSE,
                                             errTimedOut |-> errTimedOut]]
       \/ /\ jobs[h].status = "processing"
          /\ jobs' = [jobs EXCEPT ![h].status = "canceled"]
    /\ UNCHANGED <<mu, config, files, now, sweepNext, operations, tasks, resp, lastEst, calls, faults>>

\* the answer to a poll arrives before the next tick is due; only the answer to the
\* last poll before a deadline can still be on its way when the deadline passes
AnswerInFlight(tk) ==
    /\ tk.wres # NoWaitResult
    /\ ~CtxDone(tk)
    /\ tk.ctxDeadline - now <= TickerSeconds

\* a task that runs without waiting for a timer: time does not pass under it
Urgent(tk) ==
    \/ tk.pc \in {"called", "co_save"}
    \/ WaiterRunning(tk) /\ CtxDone(tk)
    \/ tk.pc = "co_check" /\ ~AnswerInFlight(tk)
    \/ tk.pc = "vc_wait" /\ tk.wres # NoWaitResult /\ ~AnswerInFlight(tk)

\* the timers a task waits for
Timers(tk) ==
    IF tk.pc = "gi_loop" THEN {tk.tick}
    ELSE IF tk.pc = "vc_wait"
    THEN {tk.start + InitialWaitSeconds} \cup (IF tk.wres = NoWaitResult THEN {tk.tick} ELSE {})
    ELSE IF tk.pc = "co_wait" THEN {tk.tick, tk.ctxDeadline}
    ELSE IF tk.pc = "co_check" THEN {tk.ctxDeadline}
    ELSE {}

\* the cleanup ticker: a pass over an empty registry changes nothing and is not a
\* step of the model
CleanupTimers == IF operations = << >> THEN {} ELSE {sweepNext}

\* the first tick of the cleanup ticker at or after time t
CleanupTickFrom(t) ==
    IF sweepNext >= t THEN sweepNext
    ELSE sweepNext
         + ((t - sweepNext + CleanupTickerSeconds - 1) \div CleanupTickerSeconds)
           * CleanupTickerSeconds

PendingTimers ==
    CleanupTimers \cup UNION {Timers(tasks[t]) : t \in DOMAIN tasks} \cup {c \in CallTimes : c > now}

Earliest(S) == CHOOSE x \in S : \A y \in S : x <= y

\* nothing is left that the passing of time could change: no call is running, none
\* will be made, and nothing is registered
Quiescent ==
    /\ \A t \in DOMAIN tasks : tasks[t].pc = "idle"
    /\ calls = MaxCalls
    /\ operations = << >>

\* time passes until the next timer expires
Tick ==
    /\ ~Quiescent
    /\ \A t \in DOMAIN tasks : ~Urgent(tasks[t])
    /\ PendingTimers # {}
    /\ Earliest(PendingTimers) > now
    /\ Earliest(PendingTimers) <= MaxTime
    /\ now' = Earliest(PendingTimers)
    /\ sweepNext' = CleanupTickFrom(Earliest(PendingTimers))
    /\ UNCHANGED <<operations, jobs, tasks, resp, lastEst, calls, faults, files, config, mu>>

----------------------------------------------------------------------------
Next ==
    \/ \E t \in Tasks : CallGenerate(t)
    \/ \E t \in Tasks : CallContinue(t)
    \/ \E t \in Tasks : CallerCancel(t)
    \/ \E t \in Tasks : GenerateBegin(t)
    \/ \E t \in Tasks : GenerateImagePoll(t)
    \/ \E t \in Tasks : GenerateImageTimeout(t)
    \/ \E t \in Tasks : WaitCtxDone(t)
    \/ \E t \in Tasks : WaitTick(t)
    \/ \E t \in Tasks : VcSelectResult(t)
    \/ \E t \in Tasks : VcSelectTimeout(t)
    \/ \E t \in Tasks : ContinueBegin(t)
    \/ \E t \in Tasks : ContinueCheck(t)
    \/ \E t \in Tasks : ContinueSave(t)
    \/ \E h \in UpstreamIDs : JobProgress(h)
    \/ cleanupExpired
    \/ Tick

Spec == Init /\ [][Next]_vars

----------------------------------------------------------------------------
(* Properties *)

\* the step is the return of task t's tool call
Returns(t) == tasks[t].pc # "idle" /\ tasks'[t].pc = "idle"

\* task record tk is a Dispatch that has submitted its job, and no fault of the
\* environment (a failed poll, a cancellation) is ending it
DispatchRunning(tk) ==
    /\ tk.tool \in {GI, VC}
    /\ tk.pc \in {"gi_loop", "vc_wait"}
    /\ ~tk.canceled
    /\ tk.wres.err # "transport"

\* C1 -- Pending registration: a Dispatch whose upstream job is still non-terminal when
\* the initial wait has elapsed returns a pending response that carries the job's handle,
\* and the handle is in the registry right after the return.
C1_PendingRegistration ==
    [][\A t \in Tasks :
          (/\ Returns(t)
           /\ DispatchRunning(tasks[t])
           /\ faults' = faults
           /\ jobs[tasks[t].id].status \in NonTerminal
           /\ now >= tasks[t].start + InitialWaitSeconds)
          => (/\ resp'[t].kind = "pending"
              /\ resp'[t].id = tasks[t].id
              /\ Exists(operations', tasks[t].id))]_vars

\* C2 -- Completion within bound: when the upstream job has reached a terminal status
\* before the initial wait elapses, the Dispatch that returns then does not return
\* pending (completed for a succeeded job, failed otherwise), and the registry holds
\* no entry for the handle afterwards.
C2_CompletionWithinBound ==
    [][\A t \in Tasks :
          (/\ Returns(t)
           /\ DispatchRunning(tasks[t])
           /\ faults' = faults
           /\ jobs[tasks[t].id].status \in Terminal
           /\ now < tasks[t].start + InitialWaitSeconds)
          => (/\ resp'[t].kind \in {"completed", "failed"}
              /\ jobs[tasks[t].id].status = "succeeded" /\ jobs[tasks[t].id].hasOutput
                    => resp'[t].kind = "completed"
              /\ ~Exists(operations', tasks[t].id))]_vars

\* the scheduler runs every handler, the clock and the cleanup goroutine on
FairSpec == Spec /\ WF_vars(Next)

\* task t has just been given continue_operation for handle h, which an earlier
\* response returned as pending, and the upstream job has succeeded
ContinueCalledAfterSuccess(t, h) ==
    /\ tasks[t].pc = "called"
    /\ tasks[t].tool = CO
    /\ tasks[t].id = h
    /\ lastEst[h] > 0
    /\ jobs[h].status = "succeeded"

ContinueCompleted(t, h) ==
    /\ tasks[t].pc = "idle"
    /\ resp[t].kind = "completed"
    /\ resp[t].id = h
    /\ ~Exists(operations, h)

\* C3 -- Continuation convergence, as stated: once the upstream job of a handle returned
\* as pending has succeeded, a Continue for the handle returns completed with the handle
\* absent from the registry, unless the environment faults during the call.
C3_Convergence ==
    \A t \in Tasks, h \in UpstreamIDs, n \in 0..MaxFaults :
        (ContinueCalledAfterSuccess(t, h) /\ faults = n)
            ~> (ContinueCompleted(t, h) \/ faults > n)

\* C3 -- Continuation convergence, for a job that succeeded with an output URL: once the
\* upstream job of a handle returned as pending has succeeded with an output URL, a
\* Continue for the handle returns completed with the handle absent from the registry,
\* unless the environment faults during the call.
C3_ConvergenceWithOutput ==
    \A t \in Tasks, h \in UpstreamIDs, n \in 0..MaxFaults :
        (ContinueCalledAfterSuccess(t, h) /\ jobs[h].hasOutput /\ faults = n)
            ~> (ContinueCompleted(t, h) \/ faults > n)

\* what does hold: the same for a handle that is still in the registry when the Continue
\* is called
C3_ConvergenceRegistered ==
    \A t \in Tasks, h \in UpstreamIDs, n \in 0..MaxFaults :
        (/\ ContinueCalledAfterSuccess(t, h)
         /\ jobs[h].hasOutput
         /\ Exists(operations, h)
         /\ faults = n)
            ~> (ContinueCompleted(t, h) \/ faults > n)

\* a continuation has completed a handle that was pending before
C3_Witness ==
    \E t \in Tasks, h \in UpstreamIDs :
        /\ ContinueCompleted(t, h)
        /\ resp[t].tool = VC
        /\ resp[t].polls > 0
        /\ lastEst[h] > 0

\* the time of the cleanup ticker's last tick
LastCleanup == sweepNext - CleanupTickerSeconds

C5_NoTerminalLeftRegistered ==
    [][\A t \in Tasks :
          (Returns(t) /\ tasks[t].wres.status \in Terminal)
          => ~Exists(operations', tasks[t].id)]_vars

\* C6 -- An entry leaves the registry only (a) when a Continue for its handle observed a
\* terminal status, or (b) when the cleanup pass finds it expired.
C6_DestroyedOnlyByTerminalOrTTL ==
    [][\A h \in DOMAIN operations :
          ~Exists(operations', h)
          => \/ Expired(operations[h], now) /\ sweepNext' # sweepNext
             \/ \E t \in Tasks : /\ Returns(t) \/ tasks'[t].pc = "co_save"
                                 /\ tasks[t].tool = CO
                                 /\ tasks[t].id = h
                                 /\ tasks[t].wres.status \in Terminal]_vars

\* C7 -- Estimate bounds: every pending response's estimate is within [5, 60], and it is
\* not above the estimate of the handle's previous pending response.
C7_EstimateBoundedNonIncreasing ==
    [][\A t \in Tasks :
          (Returns(t) /\ resp'[t].kind = "pending")
          => (/\ resp'[t].est >= MinEstimate
              /\ resp'[t].est <= MaxEstimate
              /\ lastEst[resp'[t].id] > 0 => resp'[t].est <= lastEst[resp'[t].id])]_vars

\* C8 -- Idempotent continuation: continue_operation on a handle that is not in the
\* registry ends with a response or an error, never with a panic, whatever the handle.
C8_ContinueUnregisteredNeverCrashes ==
    [][\A t \in Tasks :
          (Returns(t) /\ tasks[t].tool = CO /\ ~Exists(operations, tasks[t].id))
          => resp'[t].kind \in {"completed", "pending", "failed", "error"}]_vars

\* what a pending response must carry: the handle asked for and a bounded estimate
PendingWellFormed(r, id) ==
    r.kind = "pending" => (r.id = id /\ id # "" /\ r.est \in MinEstimate..MaxEstimate)

\* C9 -- Response trichotomy, as stated: every call that returns yields a completed,
\* pending or failed response value, and a pending one carries handle and estimate.
C9_Trichotomy ==
    [][\A t \in Tasks :
          (Returns(t) /\ resp'[t].kind # "panic")
          => (/\ resp'[t].kind \in {"completed", "pending", "failed"}
              /\ PendingWellFormed(resp'[t], tasks[t].id))]_vars

\* C9 -- Response trichotomy, amended: a Dispatch that returns yields a completed,
\* pending or failed response value; a Continue that returns yields a completed or
\* pending response value, or no response value and an error; a pending response
\* carries the handle and an estimate within [5, 60].
C9_TrichotomyAmended ==
    [][\A t \in Tasks :
          (Returns(t) /\ resp'[t].kind # "panic")
          => (/\ tasks[t].tool \in {GI, VC}
                    => resp'[t].kind \in {"completed", "pending", "failed"}
              /\ tasks[t].tool = CO => resp'[t].kind \in {"completed", "pending", "error"}
              /\ PendingWellFormed(resp'[t], tasks[t].id))]_vars

\* a Continue has returned pending, and another has returned an error
C9_Witness ==
    \E t \in Tasks, h \in UpstreamIDs :
        /\ resp[t].kind = "error"
        /\ resp[t].code = "operation failed"
        /\ resp[t].polls > 0
        /\ lastEst[h] > 0
        /\ lastEst[h] < InitialEstimateVisualContext

\* C10 -- Submit failure: a Dispatch that returns straight after one CreatePrediction
\* attempt returns failed, has polled nothing, created no job and left the registry as
\* it was.
C10_SubmitFailure ==
    [][\A t \in Tasks :
          (Returns(t) /\ tasks[t].pc = "called" /\ tasks[t].tool \in {GI, VC}
              /\ resp'[t].creates > 0)
          => (/\ resp'[t].kind = "failed"
              /\ resp'[t].creates = 1
              /\ resp'[t].polls = 0
              /\ now' = now
              /\ jobs' = jobs
              /\ operations' = operations)]_vars

\* a Dispatch has failed at its submit
C10_Witness ==
    \E t \in Tasks :
        /\ resp[t].kind = "failed"
        /\ resp[t].tool \in {GI, VC}
        /\ resp[t].creates = 1
        /\ resp[t].polls = 0

\* C11 -- Upstream failure during the initial wait: a Dispatch that returns before the
\* initial wait has elapsed, with its upstream job failed or canceled, returns failed, and
\* the registry holds no entry for the handle.
C11_UpstreamFailureDuringWait ==
    [][\A t \in Tasks :
          (/\ Returns(t)
           /\ DispatchRunning(tasks[t])
           /\ faults' = faults
           /\ jobs[tasks[t].id].status \in {"failed", "canceled"}
           /\ now < tasks[t].start + InitialWaitSeconds)
          => (/\ resp'[t].kind = "failed"
              /\ resp'[t].code = "generation_failed"
              /\ ~Exists(operations', tasks[t].id))]_vars

\* the step is the return of a Continue of task t whose wait ran its whole time while
\* the upstream job stayed non-terminal
ContinueTimesOut(t) ==
    /\ Returns(t)
    /\ tasks[t].tool = CO
    /\ tasks[t].pc = "co_check"
    /\ ~tasks[t].canceled
    /\ now >= tasks[t].start + tasks[t].waitTime
    /\ tasks[t].id \in UpstreamIDs
    /\ jobs[tasks[t].id].status \in NonTerminal

\* C12 -- Continue on timeout leaves the registry unchanged: a Continue whose wait times
\* out with the job still non-terminal returns pending and changes nothing in the
\* registry; the entry of the handle, if there is one, is the one the call found, with
\* its StartTime, and the estimate is computed from that StartTime.
C12_TimeoutLeavesRegistry ==
    [][\A t \in Tasks :
          ContinueTimesOut(t)
          => (/\ resp'[t].kind = "pending"
              /\ operations' = operations
              /\ Exists(operations, tasks[t].id)
                    => (/\ operations[tasks[t].id] = tasks[t].op
                        /\ resp'[t].est =
                              EstimateRemainingTime(
                                  operations[tasks[t].id].Operation,
                                  now - operations[tasks[t].id].StartTime)))]_vars

\* two Continue calls have timed out on a handle registered by a Dispatch, and the entry
\* still carries the time of its registration
C12_Witness ==
    \E t \in Tasks, h \in UpstreamIDs :
        /\ calls = 3
        /\ resp[t].kind = "pending"
        /\ resp[t].id = h
        /\ resp[t].creates = 0
        /\ Exists(operations, h)
        /\ operations[h].StartTime = InitialWaitSeconds
        /\ now >= operations[h].StartTime + DefaultWaitTime + MinWaitTime

\* C13 -- Continue on upstream failure: a Continue whose wait observed the job failed or
\* canceled returns a failure (a failed response or an error), never pending, and the
\* handle is not in the registry afterwards, whenever the observation was made.
C13_ContinueOnUpstreamFailure ==
    [][\A t \in Tasks :
          (/\ Returns(t)
           /\ tasks[t].tool = CO
           /\ tasks[t].wres.status \in {"failed", "canceled"})
          => (/\ resp'[t].kind \in {"failed", "error"}
              /\ ~Exists(operations', tasks[t].id))]_vars

----------------------------------------------------------------------------
(* Concurrent callers: several tool calls in flight at once *)

MaxConcurrent == 2    \* callers, and predictions of the provider, in the concurrent scenario

ConcurrentTasks == {"t" \o ToString(n) : n \in 1..MaxConcurrent}
ConcurrentIDs == {PredictionID(n) : n \in 1..MaxConcurrent}

ConcurrentInit ==
    /\ now = 0
    /\ sweepNext = CleanupTickerSeconds
    /\ operations = << >>
    /\ jobs = [h \in ConcurrentIDs |-> NoJob]
    /\ tasks = [t \in ConcurrentTasks |-> IdleTask]
    /\ resp = [t \in ConcurrentTasks |-> NoResponse]
    /\ lastEst = [h \in ConcurrentIDs |-> 0]
    /\ calls = 0
    /\ faults = 0
    /\ files = {}
    /\ config = DefaultConfig
    /\ mu = Unlocked

\* the callers dispatch generate_with_visual_context with good arguments at the same
\* time, and continue the handles the provider issued; the environment does not fault
ConcurrentNext ==
    \/ \E t \in ConcurrentTasks :
          CallGenerate(t) /\ now = 0 /\ tasks'[t].tool = VC /\ tasks'[t].args = GoodArgs
    \/ \E t \in ConcurrentTasks :
          CallContinue(t) /\ tasks'[t].id \in ConcurrentIDs /\ tasks'[t].waitArg = NoWaitTime
             /\ faults' = faults
    \/ \E t \in ConcurrentTasks : GenerateBegin(t) /\ faults' = faults
    \/ \E t \in ConcurrentTasks : WaitCtxDone(t)
    \/ \E t \in ConcurrentTasks : WaitTick(t) /\ faults' = faults
    \/ \E t \in ConcurrentTasks : VcSelectResult(t) /\ faults' = faults
    \/ \E t \in ConcurrentTasks : VcSelectTimeout(t)
    \/ \E t \in ConcurrentTasks : ContinueBegin(t)
    \/ \E t \in ConcurrentTasks : ContinueCheck(t)
    \/ \E t \in ConcurrentTasks : ContinueSave(t) /\ faults' = faults
    \/ \E h \in ConcurrentIDs : JobProgress(h)
    \/ cleanupExpired
    \/ Tick

ConcurrentSpec == ConcurrentInit /\ [][ConcurrentNext]_vars

\* caller u has a Dispatch in flight, or its Dispatch has returned and it has made no
\* call since
DispatchedBeside(t, u) ==
    /\ u # t
    /\ \/ tasks[u].pc = "vc_wait"
       \/ tasks[u].pc = "idle" /\ resp[u].creates = 1

\* C14 -- Independent concurrent operations: of Dispatch calls made at the same time whose
\* jobs outlast the initial wait, each returns pending with a handle of its own, and the
\* handles are in the registry together; and a step of a Continue changes neither the
\* registry entry of another handle nor another caller's call or response.
C14_IndependentOperations ==
    [][/\ \A t \in DOMAIN tasks :
            (/\ Returns(t)
             /\ DispatchRunning(tasks[t])
             /\ jobs[tasks[t].id].status \in NonTerminal
             /\ now >= tasks[t].start + InitialWaitSeconds
             /\ \E u \in DOMAIN tasks : DispatchedBeside(t, u))
            => (/\ resp'[t].kind = "pending"
                /\ resp'[t].id = tasks[t].id
                /\ Exists(operations', tasks[t].id)
                /\ \A u \in DOMAIN tasks :
                      (u # t /\ tasks[u].pc = "idle" /\ resp[u].kind = "pending"
                           /\ resp[u].creates = 1)
                      => (resp[u].id # tasks[t].id /\ Exists(operations', resp[u].id)))
       /\ \A t \in DOMAIN tasks :
            (tasks[t].tool = CO /\ tasks'[t] # tasks[t])
            => (/\ \A h \in (DOMAIN operations \cup DOMAIN operations') \ {tasks[t].id} :
                      /\ h \in DOMAIN operations
                      /\ h \in DOMAIN operations'
                      /\ operations'[h] = operations[h]
                /\ \A u \in DOMAIN tasks \ {t} :
                      tasks'[u] = tasks[u] /\ resp'[u] = resp[u])]_vars

\* C15 -- Prompt cancellation: once the caller has canceled a Dispatch or a Continue that
\* is waiting, the call returns before any time passes: it does not wait for the next
\* poll, nor for the rest of its wait.
C15_PromptCancellation ==
    [][\A t \in Tasks :
          (tasks[t].canceled /\ tasks[t].pc \in {"gi_loop", "vc_wait", "co_wait"})
          => now' = now]_vars

\* the wait of the Continue of task record tk was ended by the caller: by its
\* cancellation, or by its deadline before the configured wait time was over
EndedByCaller(tk) ==
    /\ tk.tool = CO
    /\ tk.pc = "co_check"
    /\ tk.wres.status = ""
    /\ \/ tk.wres.err = "ctx_canceled"
       \/ tk.wres.err = "ctx_deadline" /\ now < tk.start + tk.waitTime

\* C16 -- Canceled is distinguishable from TimedOut: a Continue whose wait was ended by
\* the caller's cancellation or by the caller's deadline does not return the pending
\* response a wait that ran its whole time returns.
C16_CanceledDistinctFromTimedOut ==
    [][\A t \in Tasks :
          (Returns(t) /\ EndedByCaller(tasks[t])) => resp'[t].kind # "pending"]_vars

\* the provider has issued no prediction with this ID
UnknownUpstream(predictionID) ==
    predictionID \notin DOMAIN jobs \/ jobs[predictionID].status = "none"

\* C17 -- Continue with a prediction ID unknown to the upstream provider returns an error
\* and no response, in particular no pending response, and the registry holds no entry
\* for the ID afterwards.
C17_UnknownPredictionID ==
    [][\A t \in Tasks :
          (Returns(t) /\ tasks[t].tool = CO /\ UnknownUpstream(tasks[t].id))
          => (/\ resp'[t].kind = "error"
              /\ ~Exists(operations', tasks[t].id))]_vars

\* C18 -- Bounded lifetime, as stated: in every state, no entry of the registry is older
\* than the expiry time.
C18_BoundedLifetime ==
    \A h \in DOMAIN operations : now - operations[h].StartTime <= ExpirySeconds

\* C18 -- Bounded lifetime, amended: in every state, no entry of the registry is older
\* than the expiry time plus one period of the cleanup ticker, whether or not a Continue
\* was called for it.
C18_BoundedLifetimeWithinSweep ==
    \A h \in DOMAIN operations :
        now - operations[h].StartTime <= ExpirySeconds + CleanupTickerSeconds

\* an entry has reached the age of the expiry time plus one period of the cleanup ticker:
\* the pass a period ago found it exactly at the expiry time and kept it
C18_Witness ==
    \E h \in DOMAIN operations :
        now - operations[h].StartTime = ExpirySeconds + CleanupTickerSeconds

\* a required field of the tool is missing or empty: the prompt; for
\* generate_with_visual_context also the reference images, and a tag for every image
MissingRequired(tool, args) ==
    \/ args.prompt = ""
    \/ tool = VC /\ (args.images = 0 \/ args.tags # args.images)

\* C19 -- Local validation precedes any network call: the first step of a Dispatch with a
\* missing or empty required field is its return, with a failed response of code
\* invalid_parameters, after no request to the provider, with the provider's jobs and
\* the registry unchanged.
C19_ValidationBeforeNetwork ==
    [][\A t \in Tasks :
          (/\ tasks[t].pc = "called"
           /\ tasks[t].tool \in {GI, VC}
           /\ MissingRequired(tasks[t].tool, tasks[t].args)
           /\ tasks'[t] # tasks[t])
          => (/\ Returns(t)
              /\ resp'[t].kind = "failed"
              /\ resp'[t].code = "invalid_parameters"
              /\ resp'[t].creates = 0
              /\ resp'[t].polls = 0
              /\ jobs' = jobs
              /\ operations' = operations
              /\ faults' = faults)]_vars

\* a generate_with_visual_context call has been refused for its parameters
C19_Witness ==
    \E t \in Tasks :
        /\ resp[t].kind = "failed"
        /\ resp[t].tool = VC
        /\ resp[t].code = "invalid_parameters"
        /\ resp[t].creates = 0
        /\ \A h \in DOMAIN jobs : jobs[h].status = "none"

\* clamp(waitTimeSeconds, 5, 30), and the default when wait_time is absent. A float64
\* no int holds is above 30
ClampedWait(arg) ==
    IF arg = NoWaitTime THEN DefaultWaitTime
    ELSE Max(MinWaitTime, Min(MaxWaitTime, arg))

\* C20 -- Continue's effective wait: the wait handed to the bounded waiter is
\* clamp(wait_time, 5, 30) for every supplied wait_time, and 30 when it is absent.
C20_EffectiveWait ==
    [][\A t \in Tasks :
          (tasks[t].pc = "called" /\ tasks[t].tool = CO /\ tasks'[t].pc = "co_wait")
          => (/\ tasks'[t].waitTime = ClampedWait(tasks[t].waitArg)
              /\ tasks'[t].deadline = now + ClampedWait(tasks[t].waitArg))]_vars

\* the range alone: a wait of continue_operation is never below 5 s nor above 30 s
C20_WaitWithinRange ==
    \A t \in Tasks : tasks[t].pc = "co_wait"
                        => tasks[t].waitTime \in MinWaitTime..MaxWaitTime

\* the step writes the image of storage ID sid and leaves sid without metadata.yaml:
\* SaveImage succeeded and SaveMetadata failed
MetadataLost(sid) ==
    /\ <<sid, "image">> \in files' \ files
    /\ <<sid, "metadata">> \notin files'

\* C21 -- Metadata-persistence failure is swallowed: a Dispatch or Continue that has
\* persisted the image and failed to write the metadata returns with that step, with the
\* completed response of the storage ID, and with the registry as a successful
\* SaveMetadata leaves it: unchanged by the step, and without the handle.
C21_MetadataFailureSwallowed ==
    [][\A t \in Tasks : \A sid \in {f[1] : f \in files'} :
          (tasks'[t] # tasks[t] /\ MetadataLost(sid))
          => (/\ Returns(t)
              /\ resp'[t].kind = "completed"
              /\ resp'[t].storage = sid
              /\ resp'[t].id = tasks[t].id
              /\ operations' = operations
              /\ ~Exists(operations', tasks[t].id))]_vars

\* a Continue has completed a registered handle although the metadata was not written
C21_Witness ==
    \E t \in Tasks, h \in UpstreamIDs :
        /\ resp[t].kind = "completed"
        /\ resp[t].id = h
        /\ resp[t].creates = 0
        /\ lastEst[h] > 0
        /\ <<resp[t].storage, "image">> \in files
        /\ <<resp[t].storage, "metadata">> \notin files

----------------------------------------------------------------------------
(* Start of the process: the timeout configuration *)

\* values of a timeout variable: unset, not a number, zero, negative, positive, and a
\* number that is not an integer
EnvValues == {"", "abc", "0", "-5", "7", "1.5"}

StartupInit ==
    /\ now = 0
    /\ sweepNext = CleanupTickerSeconds
    /\ operations = << >>
    /\ jobs = [h \in UpstreamIDs |-> NoJob]
    /\ tasks = [t \in Tasks |-> IdleTask]
    /\ resp = [t \in Tasks |-> NoResponse]
    /\ lastEst = [h \in AllIDs |-> 0]
    /\ calls = 0
    /\ faults = 0
    /\ files = {}
    /\ mu = Unlocked
    /\ \E env \in [EnvNames -> EnvValues] :
          config = [env |-> env, loaded |-> FALSE, timeouts |-> DefaultTimeouts]

\* LoadTimeouts has no error result: the start always goes on with what it returns
Startup ==
    /\ ~config.loaded
    /\ config' = [config EXCEPT !.loaded = TRUE, !.timeouts = LoadTimeouts(config.env)]
    /\ UNCHANGED <<now, sweepNext, operations, jobs, tasks, resp, lastEst, calls, faults,
                   files, mu>>

StartupSpec == StartupInit /\ [][Startup]_vars

\* a value that parses as a strictly positive duration
PositiveDuration(val) == ~Atoi(val).err /\ Atoi(val).n > 0

\* C22 -- Timeout configuration validation: the process does not start with a
\* configuration in which a timeout variable is set to a value that is not a strictly
\* positive number.
C22_InvalidConfigRejected ==
    config.loaded => \A n \in EnvNames : config.env[n] = "" \/ PositiveDuration(config.env[n])

\* what does hold: every timeout of a loaded configuration is strictly positive
C22_LoadedTimeoutsPositive ==
    config.loaded => /\ config.timeouts.InitialWait > 0
                     /\ config.timeouts.ContinueWait > 0
                     /\ config.timeouts.MaxOperationTime > 0
                     /\ config.timeouts.PollInterval > 0

----------------------------------------------------------------------------
(* The bounded waiter on its own *)

\* the step is a poll of task t's waiter before the deadline of the wait, and the
\* GetPrediction of the poll fails: in transport, for an ID the provider does not know,
\* or on a context that is done
PollFails(t) ==
    /\ WaiterRunning(tasks[t])
    /\ tasks'[t].polls = tasks[t].polls + 1
    /\ now < tasks[t].deadline
    /\ \/ faults' > faults
       \/ UnknownUpstream(tasks[t].id)
       \/ CtxDone(tasks[t])

\* C23 -- No retry on poll error: a poll of the waiter that fails before the deadline ends
\* the wait in that step with the error and no prediction, whatever the state of the job,
\* and the call makes no poll after it.
C23_NoRetryOnPollError ==
    [][\A t \in Tasks :
          /\ PollFails(t)
                => (/\ tasks'[t].wres.err = "transport"
                    /\ tasks'[t].wres.status = ""
                    /\ ~WaiterRunning(tasks'[t]))
          /\ tasks[t].wres.err = "transport"
                => (/\ tasks'[t].pc # "idle" => tasks'[t].polls = tasks[t].polls
                    /\ Returns(t) => resp'[t].polls = tasks[t].polls)]_vars

\* a wait has been ended by a failed poll while the job is running and the deadline of
\* the wait is ahead
C23_Witness ==
    \E t \in Tasks :
        /\ tasks[t].wres.err = "transport"
        /\ tasks[t].id \in UpstreamIDs
        /\ jobs[tasks[t].id].status \in NonTerminal
        /\ now < tasks[t].deadline
        /\ tasks[t].polls > 1

\* the step is a poll of task t's waiter, before the deadline of the wait, that is
\* answered with a terminal status
PollObservesTerminal(t) ==
    /\ WaiterRunning(tasks[t])
    /\ tasks'[t].polls = tasks[t].polls + 1
    /\ now < tasks[t].deadline
    /\ faults' = faults
    /\ ~CtxDone(tasks[t])
    /\ ~UnknownUpstream(tasks[t].id)
    /\ jobs[tasks[t].id].status \in Terminal

----------------------------------------------------------------------------
(* The registry *)

\* the step is a pass of the cleanup goroutine
SweepStep == now' = now /\ sweepNext' = sweepNext + CleanupTickerSeconds

Synthesized(tk) ==
    tk.tool = CO /\ tk.pc \in {"co_wait", "co_check", "co_save"} /\ tk.op.Model = ""

\* C28 -- Continue never inserts into the registry: no step of a Continue adds an entry or
\* changes one, and a Continue that found the handle absent when it started returns with
\* the handle absent, whatever it returns.
C28_ContinueNeverInserts ==
    [][\A t \in Tasks :
          /\ (tasks[t].tool = CO /\ tasks'[t] # tasks[t])
                => \A h \in DOMAIN operations' :
                      h \in DOMAIN operations /\ operations'[h] = operations[h]
          /\ (Returns(t) /\ Synthesized(tasks[t]))
                => ~Exists(operations', tasks[t].id)]_vars

\* a Continue for a handle that was not registered has waited its whole time and
\* returned pending, with the made-up storage ID, and the handle is not registered
C28_Witness ==
    \E t \in Tasks, h \in UpstreamIDs :
        /\ resp[t].kind = "pending"
        /\ resp[t].id = h
        /\ resp[t].creates = 0
        /\ resp[t].storage = SynthesizedOperation(h, 0).StorageID
        /\ resp[t].polls >= (DefaultWaitTime \div TickerSeconds) - 1
        /\ ~Exists(operations, h)

\* C29 -- Remove-before-persist ordering in Continue: the step of a Continue that takes up
\* a succeeded wait removes the entry and writes no file; and when the extraction of the
\* output URL or the save fails afterwards, the Continue returns an error, nothing was
\* written, and the entry is not put back: a later Continue finds the handle unregistered.
C29_RemoveBeforePersist ==
    [][\A t \in Tasks :
          /\ (tasks[t].pc = "co_check" /\ tasks'[t].pc = "co_save")
                => (/\ tasks[t].wres.status = "succeeded"
                    /\ ~Exists(operations', tasks[t].id)
                    /\ files' = files)
          /\ (tasks[t].pc = "co_save" /\ tasks'[t] # tasks[t])
                => (/\ Returns(t)
                    /\ ~Exists(operations', tasks[t].id)
                    /\ resp'[t].kind \in {"completed", "error"}
                    /\ resp'[t].kind = "error" => files' = files
                    /\ resp'[t].kind = "completed"
                          => <<tasks[t].op.StorageID, "image">> \in files')]_vars

\* the Continue of a registered handle has observed succeeded, has failed to save the
\* image, and has left the handle unregistered
C29_Witness ==
    \E t \in Tasks, h \in UpstreamIDs :
        /\ calls = 2
        /\ resp[t].kind = "error"
        /\ resp[t].code = "failed to save image"
        /\ resp[t].id = h
        /\ lastEst[h] > 0
        /\ jobs[h].status = "succeeded"
        /\ ~Exists(operations, h)
        /\ files = {}
        /\ now < ExpirySeconds

\* the Continue of task record tk read its PendingOperation from the registry, and the
\* entry has gone while the Continue was waiting
EvictedInFlight(tk) ==
    /\ tk.tool = CO
    /\ tk.pc \in {"co_wait", "co_check"}
    /\ tk.op.Model # ""
    /\ ~Exists(operations, tk.id)

\* C30 -- Sweep racing an in-flight Continue: a Continue reads the entry of its handle as
\* it is registered; when the cleanup pass evicts the entry while the Continue waits, the
\* record the Continue read stays what it was, the Continue goes on and returns (pending
\* with the estimate of that record's operation and start time, or on to the save with
\* that record's storage ID), its Remove changes nothing, and the handle is not in the
\* registry afterwards.
C30_SweepRacingContinue ==
    [][\A t \in Tasks :
          /\ (tasks[t].pc = "called" /\ tasks[t].tool = CO /\ tasks'[t].pc = "co_wait"
                 /\ Exists(operations, tasks[t].id))
                => tasks'[t].op = operations[tasks[t].id]
          /\ (SweepStep /\ tasks[t].tool = CO) => tasks'[t] = tasks[t]
          /\ (EvictedInFlight(tasks[t]) /\ tasks'[t] # tasks[t])
                => (/\ operations' = operations
                    /\ ~Exists(operations', tasks[t].id)
                    /\ tasks'[t].pc # "idle" => tasks'[t].op = tasks[t].op
                    /\ Returns(t) => resp'[t].kind \in {"pending", "error"}
                    /\ (Returns(t) /\ resp'[t].kind = "pending")
                          => (/\ resp'[t].id = tasks[t].op.PredictionID
                              /\ resp'[t].storage = tasks[t].op.StorageID
                              /\ resp'[t].tool = tasks[t].op.Operation
                              /\ resp'[t].est =
                                    EstimateRemainingTime(tasks[t].op.Operation,
                                                          now - tasks[t].op.StartTime)))]_vars

\* a Continue whose entry was evicted while it waited has returned pending with the
\* storage ID of the entry it read
C30_Witness ==
    \E t \in Tasks, h \in UpstreamIDs :
        /\ resp[t].kind = "pending"
        /\ resp[t].id = h
        /\ resp[t].creates = 0
        /\ DirectoryExists(resp[t].storage)
        /\ resp[t].est = MinEstimate
        /\ resp[t].polls >= (DefaultWaitTime \div TickerSeconds) - 1
        /\ jobs[h].status \in NonTerminal
        /\ ~Exists(operations, h)
        /\ now > ExpirySeconds

----------------------------------------------------------------------------
(* Racing continuations: a second continue_operation for a handle whose first is running *)

\* task t calls continue_operation for the handle another task's Continue is working
\* on, at whatever moment of that Continue
CallContinueBeside(t) ==
    /\ tasks[t].pc = "idle"
    /\ calls < MaxCalls
    /\ \E u \in DOMAIN tasks \ {t} :
          /\ tasks[u].tool = CO
          /\ tasks[u].pc \in {"co_wait", "co_check", "co_save"}
          /\ tasks' = [tasks EXCEPT ![t] =
                          [IdleTask EXCEPT !.pc = "called", !.tool = CO, !.id = tasks[u].id,
                                           !.start = now]]
    /\ resp' = [resp EXCEPT ![t] = NoResponse]
    /\ calls' = calls + 1
    /\ UNCHANGED <<mu, config, files, now, sweepNext, operations, jobs, lastEst, faults>>

\* one caller dispatches generate_with_visual_context with good arguments; the handle
\* is continued, and continued again while a Continue for it is running; the
\* environment does not fault
RaceNext ==
    \/ CallGenerate("t1") /\ now = 0 /\ calls = 0 /\ tasks'["t1"].tool = VC
          /\ tasks'["t1"].args = GoodArgs
    \/ \E t \in ConcurrentTasks :
          CallContinue(t) /\ tasks'[t].id = PredictionID(1) /\ tasks'[t].waitArg = NoWaitTime
             /\ faults' = faults /\ Exists(operations, PredictionID(1))
    \/ \E t \in ConcurrentTasks : CallContinueBeside(t)
    \/ \E t \in ConcurrentTasks : GenerateBegin(t) /\ faults' = faults
    \/ \E t \in ConcurrentTasks : WaitCtxDone(t)
    \/ \E t \in ConcurrentTasks : WaitTick(t) /\ faults' = faults
    \/ \E t \in ConcurrentTasks : VcSelectResult(t) /\ faults' = faults
    \/ \E t \in ConcurrentTasks : VcSelectTimeout(t)
    \/ \E t \in ConcurrentTasks : ContinueBegin(t)
    \/ \E t \in ConcurrentTasks : ContinueCheck(t)
    \/ \E t \in ConcurrentTasks : ContinueSave(t) /\ faults' = faults
    \/ JobProgress(PredictionID(1))
    \/ cleanupExpired
    \/ Tick

RaceSpec == ConcurrentInit /\ [][RaceNext]_vars

\* C27 -- Racing continuations on one handle: of two Continue calls running at the same
\* time on a handle that was registered, each one that observes the job succeeded (with
\* its output) returns completed, whatever the other has done to the registry; and the
\* handle is absent when a Continue that observed succeeded has returned.
C27_RacingContinuations ==
    [][\A t \in DOMAIN tasks :
          (/\ Returns(t)
           /\ tasks[t].tool = CO
           /\ tasks[t].wres.status = "succeeded"
           /\ tasks[t].wres.err = "none"
           /\ jobs[tasks[t].id].hasOutput)
          => (/\ resp'[t].kind = "completed"
              /\ ~Exists(operations', tasks[t].id))]_vars

\* what does hold: the handle is absent when a Continue that observed succeeded has
\* returned, and no such Continue ends in a panic
C27_HandleAbsentAfterSuccess ==
    [][\A t \in DOMAIN tasks :
          (/\ Returns(t)
           /\ tasks[t].tool = CO
           /\ tasks[t].wres.status = "succeeded"
           /\ tasks[t].wres.err = "none")
          => (/\ resp'[t].kind \in {"completed", "error"}
              /\ ~Exists(operations', tasks[t].id))]_vars

----------------------------------------------------------------------------
(* The registry lock: Add, Get, Remove and cleanupExpired step by step *)

\* sync.RWMutex: Lock waits until nobody holds it, RLock until no writer holds it
CanLock(m) == m.writer = "" /\ m.readers = {}
CanRLock(m) == m.writer = ""
Lock(m, g) == [m EXCEPT !.writer = g]
Unlock(m, g) == [m EXCEPT !.writer = ""]
RLock(m, g) == [m EXCEPT !.readers = @ \cup {g}]

\* a Get that returns without releasing its read lock
RUnlockForgotten(m, g) == m

RUnlock(m, g) == [m EXCEPT !.readers = @ \ {g}]

Holds(m, g) == m.writer = g \/ g \in m.readers

CleanupGoroutine == "cleanup"
LockGoroutines == ConcurrentTasks \cup {CleanupGoroutine}

\* moments of the clock this specification looks at: an entry added at 0 has expired
\* at the eleventh tick of the cleanup ticker
LockTimes == {0, ExpirySeconds + CleanupTickerSeconds, ExpirySeconds + 2 * CleanupTickerSeconds}

\* the prediction a Dispatch of task t creates
OwnID(t) == CHOOSE h \in ConcurrentIDs : \E n \in 1..MaxConcurrent :
                h = PredictionID(n) /\ t = "t" \o ToString(n)

LockInit ==
    /\ now = 0
    /\ sweepNext = CleanupTickerSeconds
    /\ operations = << >>
    /\ jobs = [h \in ConcurrentIDs |-> NoJob]
    /\ tasks = [g \in LockGoroutines |-> IdleTask]
    /\ resp = [t \in ConcurrentTasks |-> NoResponse]
    /\ lastEst = [h \in ConcurrentIDs \cup UnknownIDs |-> 0]
    /\ calls = 0
    /\ faults = 0
    /\ files = {}
    /\ config = DefaultConfig
    /\ mu = Unlocked

LockGoto(g, pc) == tasks' = [tasks EXCEPT ![g].pc = pc]

LockFrame == UNCHANGED <<config, files, jobs, resp, lastEst, faults>>

\* handleGenerateWithVisualContext is called and waits in its select, holding no lock
LkCallGenerate(t) ==
    /\ tasks[t].pc = "idle"
    /\ calls < MaxCalls
    /\ tasks' = [tasks EXCEPT ![t] =
                    [IdleTask EXCEPT !.pc = "lk_select", !.tool = VC, !.id = OwnID(t),
                                     !.start = now]]
    /\ calls' = calls + 1
    /\ UNCHANGED <<now, sweepNext, operations, mu>>
    /\ LockFrame

\* the result arrives before the timer: the call returns without touching the registry
LkSelectResult(t) ==
    /\ tasks[t].pc = "lk_select"
    /\ tasks' = [tasks EXCEPT ![t] = IdleTask]
    /\ UNCHANGED <<now, sweepNext, operations, mu, calls>>
    /\ LockFrame

\* the timer fires: the PendingOperation is made with StartTime time.Now(), Add is
\* called and takes the write lock
LkAddLock(t) ==
    /\ tasks[t].pc = "lk_select"
    /\ CanLock(mu)
    /\ mu' = Lock(mu, t)
    /\ tasks' = [tasks EXCEPT ![t].pc = "add_locked", ![t].start = now]
    /\ UNCHANGED <<now, sweepNext, operations, calls>>
    /\ LockFrame

LkAddWrite(t) ==
    /\ tasks[t].pc = "add_locked"
    /\ operations' = Add(operations, tasks[t].id,
                         [PredictionID |-> tasks[t].id, StorageID |-> GenerateID(1),
                          Operation |-> VC, StartTime |-> tasks[t].start, Model |-> ""])
    /\ LockGoto(t, "add_written")
    /\ UNCHANGED <<now, sweepNext, mu, calls>>
    /\ LockFrame

LkAddUnlock(t) ==
    /\ tasks[t].pc = "add_written"
    /\ mu' = Unlock(mu, t)
    /\ tasks' = [tasks EXCEPT ![t] = IdleTask]
    /\ UNCHANGED <<now, sweepNext, operations, calls>>
    /\ LockFrame

\* handleContinueOperation is called for some prediction ID
LkCallContinue(t) ==
    /\ tasks[t].pc = "idle"
    /\ calls < MaxCalls
    /\ \E h \in ConcurrentIDs :
          tasks' = [tasks EXCEPT ![t] =
                       [IdleTask EXCEPT !.pc = "lk_called", !.tool = CO, !.id = h,
                                        !.start = now]]
    /\ calls' = calls + 1
    /\ UNCHANGED <<now, sweepNext, operations, mu>>
    /\ LockFrame

LkGetRLock(t) ==
    /\ tasks[t].pc = "lk_called"
    /\ CanRLock(mu)
    /\ mu' = RLock(mu, t)
    /\ LockGoto(t, "get_locked")
    /\ UNCHANGED <<now, sweepNext, operations, calls>>
    /\ LockFrame

LkGetRead(t) ==
    /\ tasks[t].pc = "get_locked"
    /\ tasks' = [tasks EXCEPT ![t].pc = "get_read", ![t].op = Get(operations, tasks[t].id)]
    /\ UNCHANGED <<now, sweepNext, operations, mu, calls>>
    /\ LockFrame

\* Get returns; the call goes on to WaitForCompletion
LkGetRUnlock(t) ==
    /\ tasks[t].pc = "get_read"
    /\ mu' = RUnlock(mu, t)
    /\ LockGoto(t, "lk_poll")
    /\ UNCHANGED <<now, sweepNext, operations, calls>>
    /\ LockFrame

\* the wait ends without a terminal status: the call returns, the entry stays
LkWaitTimeout(t) ==
    /\ tasks[t].pc = "lk_poll"
    /\ tasks' = [tasks EXCEPT ![t] = IdleTask]
    /\ UNCHANGED <<now, sweepNext, operations, mu, calls>>
    /\ LockFrame

\* the wait ends with a terminal status: Remove is called and takes the write lock
LkRemoveLock(t) ==
    /\ tasks[t].pc = "lk_poll"
    /\ CanLock(mu)
    /\ mu' = Lock(mu, t)
    /\ LockGoto(t, "rm_locked")
    /\ UNCHANGED <<now, sweepNext, operations, calls>>
    /\ LockFrame

LkRemoveDelete(t) ==
    /\ tasks[t].pc = "rm_locked"
    /\ operations' = Remove(operations, tasks[t].id)
    /\ LockGoto(t, "rm_deleted")
    /\ UNCHANGED <<now, sweepNext, mu, calls>>
    /\ LockFrame

LkRemoveUnlock(t) ==
    /\ tasks[t].pc = "rm_deleted"
    /\ mu' = Unlock(mu, t)
    /\ tasks' = [tasks EXCEPT ![t] = IdleTask]
    /\ UNCHANGED <<now, sweepNext, operations, calls>>
    /\ LockFrame

\* the ticker has fired: the cleanup goroutine takes the write lock and reads the clock;
\* ticks it was too late for are dropped
LkSweepLock ==
    /\ tasks[CleanupGoroutine].pc = "idle"
    /\ now >= sweepNext
    /\ CanLock(mu)
    /\ mu' = Lock(mu, CleanupGoroutine)
    /\ tasks' = [tasks EXCEPT ![CleanupGoroutine].pc = "sw_locked",
                              ![CleanupGoroutine].start = now]
    /\ sweepNext' = ((now \div CleanupTickerSeconds) + 1) * CleanupTickerSeconds
    /\ UNCHANGED <<now, operations, calls>>
    /\ LockFrame

\* one iteration of the range loop that deletes
LkSweepDelete ==
    /\ tasks[CleanupGoroutine].pc = "sw_locked"
    /\ \E h \in DOMAIN operations :
          /\ Expired(operations[h], tasks[CleanupGoroutine].start)
          /\ operations' = Remove(operations, h)
    /\ UNCHANGED <<now, sweepNext, tasks, mu, calls>>
    /\ LockFrame

\* the range loop is over
LkSweepUnlock ==
    /\ tasks[CleanupGoroutine].pc = "sw_locked"
    /\ \A h \in DOMAIN operations : ~Expired(operations[h], tasks[CleanupGoroutine].start)
    /\ mu' = Unlock(mu, CleanupGoroutine)
    /\ tasks' = [tasks EXCEPT ![CleanupGoroutine] = IdleTask]
    /\ UNCHANGED <<now, sweepNext, operations, calls>>
    /\ LockFrame

\* time passes, whoever holds the lock
LkTick ==
    /\ \E t \in LockTimes : t > now /\ now' = t
    /\ UNCHANGED <<sweepNext, operations, tasks, mu, calls>>
    /\ LockFrame

\* the steps a goroutine takes while it holds the lock
LockCritical ==
    \/ \E t \in ConcurrentTasks :
          \/ LkAddWrite(t)
          \/ LkAddUnlock(t)
          \/ LkGetRead(t)
          \/ LkGetRUnlock(t)
          \/ LkRemoveDelete(t)
          \/ LkRemoveUnlock(t)
    \/ LkSweepDelete
    \/ LkSweepUnlock

LockNext ==
    \/ \E t \in ConcurrentTasks : LkCallGenerate(t)
    \/ \E t \in ConcurrentTasks : LkSelectResult(t)
    \/ \E t \in ConcurrentTasks : LkAddLock(t)
    \/ \E t \in ConcurrentTasks : LkAddWrite(t)
    \/ \E t \in ConcurrentTasks : LkAddUnlock(t)
    \/ \E t \in ConcurrentTasks : LkCallContinue(t)
    \/ \E t \in ConcurrentTasks : LkGetRLock(t)
    \/ \E t \in ConcurrentTasks : LkGetRead(t)
    \/ \E t \in ConcurrentTasks : LkGetRUnlock(t)
    \/ \E t \in ConcurrentTasks : LkWaitTimeout(t)
    \/ \E t \in ConcurrentTasks : LkRemoveLock(t)
    \/ \E t \in ConcurrentTasks : LkRemoveDelete(t)
    \/ \E t \in ConcurrentTasks : LkRemoveUnlock(t)
    \/ LkSweepLock
    \/ LkSweepDelete
    \/ LkSweepUnlock
    \/ LkTick

\* a goroutine that holds the lock is scheduled: nothing in a critical section blocks
LockSpec == LockInit /\ [][LockNext]_vars /\ WF_vars(LockCritical)

Waiting(g) == tasks[g].pc \in {"lk_select", "lk_poll"}

\* C26 -- Registry operations are linearizable and waits never block them: a writer
\* excludes every other holder; the map changes only in a step of the goroutine that
\* holds the write lock, so what Add wrote, what Remove deleted and what Get read is the
\* state of the map until the lock is released, and a cleanup pass deletes expired
\* entries only and releases the lock with none left; no call holds the lock while it
\* waits in its select or polls; and a lock that is held is released, so the other
\* goroutines get it during any wait.
C26_RegistryLinearizable ==
    /\ [](mu.writer # "" => mu.readers = {})
    /\ [][operations' # operations => (mu.writer # "" /\ mu'.writer = mu.writer)]_vars
    /\ [](\A t \in ConcurrentTasks :
             /\ tasks[t].pc = "add_written"
                   => (Exists(operations, tasks[t].id)
                       /\ operations[tasks[t].id].StartTime = tasks[t].start)
             /\ tasks[t].pc = "rm_deleted" => ~Exists(operations, tasks[t].id)
             /\ tasks[t].pc = "get_read" => tasks[t].op = Get(operations, tasks[t].id))
    /\ [][mu.writer = CleanupGoroutine =>
             /\ \A h \in DOMAIN operations \ DOMAIN operations' :
                   Expired(operations[h], tasks[CleanupGoroutine].start)
             /\ \A h \in DOMAIN operations' :
                   h \in DOMAIN operations /\ operations'[h] = operations[h]
             /\ mu'.writer = "" =>
                   \A h \in DOMAIN operations' :
                      ~Expired(operations'[h], tasks[CleanupGoroutine].start)]_vars
    /\ [](\A g \in LockGoroutines : Waiting(g) => ~Holds(mu, g))
    /\ [](\A g \in LockGoroutines : tasks[g].pc = "idle" => ~Holds(mu, g))
    /\ (mu # Unlocked) ~> (mu = Unlocked)

\* a cleanup pass deletes the entry a Continue read, while that Continue polls and
\* another call's Dispatch waits in its select
C26_Witness ==
    \E t, u \in ConcurrentTasks :
        /\ tasks[t].pc = "lk_poll"
        /\ tasks[t].op # NoOperation
        /\ tasks[u].pc = "lk_select"
        /\ mu.writer = CleanupGoroutine
        /\ ~Exists(operations, tasks[t].id)
====
